---- MODULE Spec2Model ----
(***************************************************************************)
(* Telemetry dashboard of Vaggiri/iot-warriors: the polling loop of        *)
(* src/Website/script.js (fetchData driven by setInterval), its bounded    *)
(* history, the status panel, the alerting system with per-metric          *)
(* cooldown, and the sensor node of src/IoT_Warriors.ino that overwrites   *)
(* the polled Firebase record.                                             *)
(*                                                                         *)
(* Readings are fixed-point numbers with two decimals (the sensor uploads  *)
(* String(x, 2)); they are held as integers in hundredths.  Times are      *)
(* integers in milliseconds.                                               *)
(***************************************************************************)
EXTENDS Integers, Sequences, FiniteSets, TLC

VARIABLES
    now,               \* wall clock of the browser, Date.now(), in ms
    nextTick,          \* earliest time the setInterval callback may run next
    nextUpload,        \* earliest time the sensor loop uploads next
    uploads,           \* number of times the database record has been written
    feed,              \* the SensorData record held by the Firebase database
    inflight,          \* the fetchData invocations suspended at an await
    started,           \* number of fetchData invocations started
    historicalData,    \* script.js:4
    lastAlertTimes,    \* script.js:220
    activeAlerts,      \* script.js:7
    unreadAlertCount,  \* script.js:8
    gauge,             \* the values shown by the three gauges
    statusText,        \* #status-text
    statusSuggestion,  \* #status-suggestion
    activityTitle,     \* #activity-title
    evaluations,       \* number of checkThresholds calls made
    waits,             \* number of times the clock has been advanced
    firedAt,           \* per metric, the values of `now` at which an alert fired
    accepted,          \* every sample pushed onto historicalData, in push order
    tab,               \* the tab whose content is not hidden
    timeFilter,        \* #chart-time-filter
    dataFilter,        \* #chart-data-filter
    analyticsChart,    \* script.js:3
    heat,              \* the points held by the three heat layers
    steps,             \* the calls the last sample was handled by, in order
    outcome,           \* how the fetchData invocation that returned last ended
    stopRequested      \* whether the user has asked for the polling to stop

vars == <<now, nextTick, nextUpload, uploads, feed, inflight, started,
          historicalData, lastAlertTimes, activeAlerts, unreadAlertCount,
          gauge, statusText, statusSuggestion, activityTitle, evaluations,
          waits, firedAt, accepted, tab, timeFilter, dataFilter,
          analyticsChart, heat, steps, outcome, stopRequested>>

-----------------------------------------------------------------------------
(* Program constants *)

Scale == 100

THRESHOLDS == [temp |-> 45 * Scale, co2 |-> 500 * Scale, humidity |-> 80 * Scale]

ALERT_COOLDOWN == 300000

HistoryLimit == 20

TickInterval == 5000

UploadInterval == 15000

Metrics == {"temp", "co2", "humidity"}

\* Date.now() when the page is loaded: any instant of the present era, which
\* is later than ALERT_COOLDOWN ms after the epoch.
StartTime == 1000000

-----------------------------------------------------------------------------
(* Bounds of the model *)

MaxStarted == 3

MaxUploads == 1

MaxWaits == 2

MaxInflight == 2

-----------------------------------------------------------------------------
(* Values *)

Reading(t, h, c) == [temperature |-> t * Scale, humidity |-> h * Scale, carbon |-> c * Scale]

Calm == Reading(30, 50, 300)

Hot == Reading(46, 50, 300)

AllHigh == Reading(50, 85, 600)

Readings == {Calm, Hot, AllHigh}

Delays == {10000, 290000, 291000}

\* What Number("abc") and a field the record does not have behave as in
\* arithmetic and comparisons: not a number.
NaN == 0 - 999999999

SensorLocation == [lat |-> 10908500, lng |-> 76909800]

NullPayload ==
    [kind |-> "null", temperature |-> 0, humidity |-> 0, carbon |-> 0,
     location |-> [lat |-> 0, lng |-> 0], timestamp |-> 0]

\* The JSON the sensor PUTs: readings, "lat,lng" and a timestamp with a
\* resolution of one second.
SensorPayload(r, t) ==
    [kind |-> "ok", temperature |-> r.temperature, humidity |-> r.humidity,
     carbon |-> r.carbon, location |-> SensorLocation,
     timestamp |-> (t \div 1000) * 1000]

\* A record some other writer left in the database: without a location, with
\* a temperature that is not a number, with a location that is not "lat,lng".
NoLocationPayload(r, t) == [SensorPayload(r, t) EXCEPT !.kind = "nolocation"]

NoTemperaturePayload(r, t) == [SensorPayload(r, t) EXCEPT !.temperature = NaN]

BadLocationPayload(r, t) ==
    [SensorPayload(r, t) EXCEPT !.location = [lat |-> NaN, lng |-> NaN]]

Addresses == {"Coimbatore"}

\* What the request of getAddressFromCoords can come to: a reply with a
\* display_name, a reply without one, a reply that is not ok, a rejection.
GeocoderResults == {"name", "noname", "notok", "throw"}

getAddressFromCoordsBlank(result) ==
    CASE result = "name" -> "Coimbatore"
      [] result = "noname" -> "Unknown Location"
      [] result = "notok" -> ""
      [] result = "throw" -> ""

getAddressFromCoords(result) ==
    CASE result = "name" -> "Coimbatore"
      [] result = "noname" -> "Unknown Location"
      [] result = "notok" -> "Address lookup failed."
      [] result = "throw" -> "Address not found."

-----------------------------------------------------------------------------
(* Pure helpers of script.js *)

Last(s) == s[Len(s)]

\* The relational and arithmetic operators of JavaScript on numbers: a
\* comparison with NaN is false, a difference with NaN is NaN.
Gt(x, y) == x # NaN /\ y # NaN /\ x > y

Lt(x, y) == x # NaN /\ y # NaN /\ x < y

Minus(x, y) == IF x = NaN \/ y = NaN THEN NaN ELSE x - y

RemoveAt(s, i) == SubSeq(s, 1, i - 1) \o SubSeq(s, i + 1, Len(s))

\* Number.prototype.toFixed(0) on a value in hundredths: round to the nearest
\* integer, halves away from zero.
ToFixed0(x) ==
    IF x >= 0 THEN (x + Scale \div 2) \div Scale
              ELSE 0 - ((0 - x + Scale \div 2) \div Scale)

Le(x, y) == x # NaN /\ y # NaN /\ x <= y

-----------------------------------------------------------------------------
(* Gauge colours: script.js:233-266.  A colour is kept as its three         *)
(* channels; the string the functions return is ColorText of the channels: *)
(* "#" and each channel in base 16, as a sequence of characters.            *)

blue == <<59, 130, 246>>

green == <<34, 197, 94>>

yellow == <<234, 179, 8>>

lightRed == <<248, 113, 113>>

midRed == <<239, 68, 68>>

darkRed == <<185, 28, 28>>

HexDigits ==
    <<"0", "1", "2", "3", "4", "5", "6", "7", "8", "9", "a", "b", "c", "d", "e", "f">>

\* Number.prototype.toString(16) of an integer or of NaN.
RECURSIVE toString16(_)
toString16(n) ==
    IF n = NaN THEN <<"N", "a", "N">>
    ELSE IF n < 0 THEN <<"-">> \o toString16(0 - n)
    ELSE IF n < 16 THEN <<HexDigits[n + 1]>>
    ELSE toString16(n \div 16) \o <<HexDigits[(n % 16) + 1]>>

\* padStart(2, '0')
padStart(s) == IF Len(s) < 2 THEN <<"0">> \o s ELSE s

\* The string interpolateColor returns for the channels it has computed.
ColorText(c) ==
    <<"#">> \o padStart(toString16(c[1])) \o padStart(toString16(c[2]))
            \o padStart(toString16(c[3]))

\* A factor is the quotient num / den of two values in hundredths, den > 0.
Factor(num, den) == [num |-> num, den |-> den]

\* Math.round(c1 + factor * (c2 - c1)): the nearest integer, a half rounded up.
Channel(c1, c2, factor) ==
    IF factor.num = NaN THEN NaN
    ELSE (2 * (c1 * factor.den + factor.num * (c2 - c1)) + factor.den)
             \div (2 * factor.den)

\* The channels of the colour interpolateColor returns.
interpolateColor(color1, color2, factor) ==
    <<Channel(color1[1], color2[1], factor), Channel(color1[2], color2[2], factor),
      Channel(color1[3], color2[3], factor)>>

\* The band getTemperatureColor picks for a value and the factor it passes.
TemperatureBand(value) ==
    IF Le(value, 25 * Scale)
       THEN [from |-> blue, to |-> green, factor |-> Factor(value, 25 * Scale)]
    ELSE IF Le(value, 40 * Scale)
       THEN [from |-> green, to |-> yellow,
             factor |-> Factor(value - 25 * Scale, 15 * Scale)]
    ELSE IF Le(value, 50 * Scale)
       THEN [from |-> yellow, to |-> lightRed,
             factor |-> Factor(value - 40 * Scale, 10 * Scale)]
    ELSE IF Le(value, 70 * Scale)
       THEN [from |-> lightRed, to |-> midRed,
             factor |-> Factor(value - 50 * Scale, 20 * Scale)]
    ELSE [from |-> midRed, to |-> darkRed,
          factor |-> Factor(Minus(value, 70 * Scale), 30 * Scale)]

getTemperatureColor(value) ==
    LET band == TemperatureBand(value)
    IN  interpolateColor(band.from, band.to, band.factor)

\* The band getCO2Color picks for a value of 350 ppm or more, or for a value
\* that is not a number.
CO2Band(value) ==
    IF Le(value, 450 * Scale)
       THEN [from |-> green, to |-> yellow,
             factor |-> Factor(value - 350 * Scale, 100 * Scale)]
    ELSE IF Le(value, 500 * Scale)
       THEN [from |-> yellow, to |-> lightRed,
             factor |-> Factor(value - 450 * Scale, 50 * Scale)]
    ELSE IF Le(value, 700 * Scale)
       THEN [from |-> lightRed, to |-> midRed,
             factor |-> Factor(value - 500 * Scale, 200 * Scale)]
    ELSE [from |-> midRed, to |-> darkRed,
          factor |-> Factor(Minus(value, 700 * Scale), 100 * Scale)]

getCO2Color(value) ==
    IF Lt(value, 350 * Scale) THEN green
    ELSE LET band == CO2Band(value)
         IN  interpolateColor(band.from, band.to, band.factor)

-----------------------------------------------------------------------------

formattedData(liveData, address) ==
    [temperature |-> liveData.temperature, humidity |-> liveData.humidity,
     carbon |-> liveData.carbon,
     latitude |-> liveData.location.lat, longitude |-> liveData.location.lng,
     locationName |-> address, timestamp |-> liveData.timestamp]

-----------------------------------------------------------------------------
(* Status panel: script.js:61-101 *)

StatusTextTemperatureFirst(data) ==
    IF Gt(data.temperature, THRESHOLDS.temp) THEN "High Temperature Alert!"
    ELSE IF Gt(data.carbon, THRESHOLDS.co2) THEN "High CO2 Levels Detected!"
    ELSE IF Gt(data.humidity, THRESHOLDS.humidity) THEN "High Humidity Detected."
    ELSE "All Systems Normal."

StatusText(data) ==
    IF Gt(data.carbon, THRESHOLDS.co2) THEN "High CO2 Levels Detected!"
    ELSE IF Gt(data.temperature, THRESHOLDS.temp) THEN "High Temperature Alert!"
    ELSE IF Gt(data.humidity, THRESHOLDS.humidity) THEN "High Humidity Detected."
    ELSE "All Systems Normal."

Stable == [kind |-> "stable", ppm |-> 0]

TrendReadyEarly(history) == Len(history) > 4

\* The trend is only looked at once the history holds more than 5 points.
TrendReady(history) == Len(history) > 5

TrendSuggestion(trend) ==
    IF Gt(trend, 50 * Scale) THEN [kind |-> "upwards", ppm |-> ToFixed0(trend)]
    ELSE IF Lt(trend, 0 - 50 * Scale) THEN [kind |-> "downwards", ppm |-> 0]
    ELSE Stable

StatusSuggestion(data, history) ==
    IF Gt(data.carbon, THRESHOLDS.co2) THEN [kind |-> "ventilate", ppm |-> 0]
    ELSE IF Gt(data.temperature, THRESHOLDS.temp) THEN [kind |-> "fire-hazard", ppm |-> 0]
    ELSE IF Gt(data.humidity, THRESHOLDS.humidity) THEN [kind |-> "mold", ppm |-> 0]
    ELSE IF TrendReady(history)
         THEN TrendSuggestion(Minus(data.carbon, history[1].carbon))
         ELSE Stable

(* Activity suggestions: script.js:104-131 *)
ActivityTitle(data) ==
    IF Gt(data.carbon, 600 * Scale) \/ Gt(data.temperature, 38 * Scale)
        THEN "Best to Stay Indoors"
    ELSE IF /\ Gt(data.temperature, 20 * Scale) /\ Lt(data.temperature, 30 * Scale)
            /\ Lt(data.humidity, 70 * Scale) /\ Lt(data.carbon, 450 * Scale)
        THEN "Perfect for a Picnic or Camping!"
    ELSE IF Gt(data.carbon, 450 * Scale) THEN "Air Quality is Moderate"
    ELSE IF Gt(data.temperature, 32 * Scale) \/ Gt(data.humidity, 75 * Scale)
        THEN "Caution: Heat and Humidity"
    ELSE "Conditions are Average"

-----------------------------------------------------------------------------
(* Alerting system: script.js:220-222 *)

Value(metric, data) ==
    CASE metric = "temp" -> data.temperature
      [] metric = "co2" -> data.carbon
      [] metric = "humidity" -> data.humidity

Label(metric) ==
    CASE metric = "temp" -> "Temperature"
      [] metric = "co2" -> "CO2 Level"
      [] metric = "humidity" -> "Humidity"

SeverityAllError(metric) == "error"

Severity(metric) == IF metric = "humidity" THEN "warning" ELSE "error"

Breaches(metric, data) == Gt(Value(metric, data), THRESHOLDS[metric])

CooledDownInclusive(t, last) == t - last >= ALERT_COOLDOWN

CooledDown(t, last) == t - last > ALERT_COOLDOWN

\* The record sendAlert puts in front of activeAlerts; its timestamp is
\* new Date().toLocaleString(), which has a resolution of one second.
AlertRecord(metric, data, t) ==
    [metric |-> Label(metric), value |-> Value(metric, data),
     type |-> Severity(metric), timestamp |-> t \div 1000]

checkThresholdsNoCooldown(data, t, last) ==
    [m \in Metrics |-> Breaches(m, data)]

checkThresholdsElseIf(data, t, last) ==
    [m \in Metrics |->
        /\ Breaches(m, data) /\ CooledDown(t, last[m])
        /\ \/ m = "temp"
           \/ m = "co2" /\ ~(Breaches("temp", data) /\ CooledDown(t, last["temp"]))
           \/ m = "humidity"
                /\ ~(Breaches("temp", data) /\ CooledDown(t, last["temp"]))
                /\ ~(Breaches("co2", data) /\ CooledDown(t, last["co2"]))]

\* The metrics for which checkThresholds(data) calls sendAlert at time t:
\* three independent if statements, in the order temperature, co2, humidity.
checkThresholds(data, t, last) ==
    [m \in Metrics |-> Breaches(m, data) /\ CooledDown(t, last[m])]

CheckOrder == <<"temp", "co2", "humidity">>

setLastAlertTimesOnBreach(last, fires, data, t) ==
    [m \in Metrics |-> IF Breaches(m, data) THEN t ELSE last[m]]

\* lastAlertTimes after checkThresholds(data) at time t: the entry of a
\* metric is assigned inside the if statement that calls sendAlert for it.
setLastAlertTimes(last, fires, data, t) ==
    [m \in Metrics |-> IF fires[m] THEN t ELSE last[m]]

\* activeAlerts after the sendAlert calls of one checkThresholds call: each
\* call unshifts its record.
RECURSIVE sendAlerts(_, _, _, _, _)
sendAlerts(alerts, fires, data, t, k) ==
    IF k > Len(CheckOrder) THEN alerts
    ELSE sendAlerts(IF fires[CheckOrder[k]]
                        THEN <<AlertRecord(CheckOrder[k], data, t)>> \o alerts
                        ELSE alerts,
                    fires, data, t, k + 1)

Count(fires) == Cardinality({m \in Metrics : fires[m]})

-----------------------------------------------------------------------------
(* History: script.js:49-52 *)

PushFront(history, data) == <<data>> \o history

Push(history, data) == Append(history, data)

TrimLate(history) ==
    IF Len(history) > HistoryLimit + 1 THEN Tail(history) ELSE history

Trim(history) == IF Len(history) > HistoryLimit THEN Tail(history) ELSE history

-----------------------------------------------------------------------------
(* Derived views: script.js:280-290, 322-351 *)

DayMs == 24 * 60 * 60 * 1000

TimeFilters == {"all", "24h", "7d"}

DataFilters == {"temperature", "humidity", "carbon"}

FilteredInclusive(history, filter, t) ==
    CASE filter = "24h" -> SelectSeq(history, LAMBDA d : d.timestamp >= t - DayMs)
      [] filter = "7d" -> SelectSeq(history, LAMBDA d : d.timestamp >= t - 7 * DayMs)
      [] OTHER -> history

\* The samples the time filter of the chart lets through at time t.
Filtered(history, filter, t) ==
    CASE filter = "24h" -> SelectSeq(history, LAMBDA d : d.timestamp > t - DayMs)
      [] filter = "7d" -> SelectSeq(history, LAMBDA d : d.timestamp > t - 7 * DayMs)
      [] OTHER -> history

NoChart == [key |-> "", points |-> <<>>]

\* The chart after renderAnalyticsChart() at time t: with an empty history
\* the function returns at once.
renderAnalyticsChart(chart, history, filter, key, t) ==
    IF history = <<>> THEN chart
    ELSE LET f == Filtered(history, filter, t)
         IN  [key |-> key,
              points |-> [k \in 1..Len(f) |-> <<f[k].timestamp, f[k][key]>>]]

NoHeat == [temperature |-> <<>>, humidity |-> <<>>, co2 |-> <<>>]

updateAllHeatmapsLatest(layers, history) ==
    IF Len(history) > 0
    THEN [temperature |-> Append(layers.temperature,
                <<Last(history).latitude, Last(history).longitude, Last(history).temperature>>),
          humidity |-> Append(layers.humidity,
                <<Last(history).latitude, Last(history).longitude, Last(history).humidity>>),
          co2 |-> Append(layers.co2,
                <<Last(history).latitude, Last(history).longitude, Last(history).carbon>>)]
    ELSE layers

\* The heat layers after updateAllHeatmaps().
updateAllHeatmaps(layers, history) ==
    IF Len(history) > 0
    THEN [temperature |-> [k \in 1..Len(history) |->
                <<history[k].latitude, history[k].longitude, history[k].temperature>>],
          humidity |-> [k \in 1..Len(history) |->
                <<history[k].latitude, history[k].longitude, history[k].humidity>>],
          co2 |-> [k \in 1..Len(history) |->
                <<history[k].latitude, history[k].longitude, history[k].carbon>>]]
    ELSE layers

HistoryAtStatusPanelPushed(history, data) == Trim(Push(history, data))

\* The history updateStatusPanel reads when fetchData handles `data`: the
\* call of updateDashboard precedes the push.
HistoryAtStatusPanel(history, data) == history

\* The calls fetchData makes for a sample, in the order of its statements.
CycleSteps(visible) ==
    <<"updateDashboard", "checkThresholds", "push">>
    \o (IF visible THEN <<"renderAnalyticsChart">> ELSE <<>>)
    \o <<"updateAllHeatmaps">>

-----------------------------------------------------------------------------
(* Initial state: the page has run initializeDashboard, whose last two      *)
(* statements call fetchData once and arm the interval timer.               *)

\* The gauges before the first update: no value shown and no colour set by
\* the script.
NoGauge ==
    [temperature |-> 0, humidity |-> 0, carbon |-> 0,
     temperatureColor |-> <<>>, carbonColor |-> <<>>]

\* The gauges after the three updateGauge calls of updateDashboard.
updateGauges(data) ==
    [temperature |-> data.temperature, humidity |-> data.humidity,
     carbon |-> data.carbon,
     temperatureColor |-> getTemperatureColor(data.temperature),
     carbonColor |-> getCO2Color(data.carbon)]

\* The page is loaded while the database holds `payload` and the sensor will
\* upload next at `upload` or later.
InitOn(payload, upload) ==
    /\ now = StartTime
    /\ nextTick = StartTime + TickInterval
    /\ nextUpload = upload
    /\ uploads = 0
    /\ feed = payload
    /\ inflight = <<[pc |-> "fetch", liveData |-> NullPayload]>>
    /\ started = 1
    /\ historicalData = <<>>
    /\ lastAlertTimes = [m \in Metrics |-> 0]
    /\ activeAlerts = <<>>
    /\ unreadAlertCount = 0
    /\ gauge = NoGauge
    /\ statusText = ""
    /\ statusSuggestion = [kind |-> "", ppm |-> 0]
    /\ activityTitle = ""
    /\ evaluations = 0
    /\ waits = 0
    /\ firedAt = [m \in Metrics |-> <<>>]
    /\ accepted = <<>>
    /\ tab = "gauge"
    /\ timeFilter = "all"
    /\ dataFilter = "temperature"
    /\ analyticsChart = NoChart
    /\ heat = NoHeat
    /\ steps = <<>>
    /\ outcome = "none"
    /\ stopRequested = FALSE

\* The sensor has not written to the database yet.
Init == InitOn(NullPayload, StartTime)

\* The sensor wrote `r` 10 s before the page was loaded.
InitAfter(r) ==
    InitOn(SensorPayload(r, StartTime - 2 * TickInterval), StartTime + TickInterval)

views == <<tab, timeFilter, dataFilter, analyticsChart, heat>>

dashboard == <<historicalData, lastAlertTimes, activeAlerts, unreadAlertCount,
               gauge, statusText, statusSuggestion, activityTitle, evaluations,
               firedAt, accepted, steps, views>>

timers == <<now, waits, nextTick, nextUpload>>

-----------------------------------------------------------------------------
(* Environment *)

\* Time passes.
Elapse(d, maxWaits) ==
    /\ waits < maxWaits
    /\ waits' = waits + 1
    /\ now' = now + d
    /\ UNCHANGED <<nextTick, nextUpload, uploads, feed, inflight, started, dashboard,
                   outcome, stopRequested>>

\* One round of loop() of the sensor node: it PUTs a fresh record over the
\* old one and then sleeps for 15 s.
SensorUpload(r, maxUploads) ==
    /\ uploads < maxUploads
    /\ now >= nextUpload
    /\ feed' = SensorPayload(r, now)
    /\ uploads' = uploads + 1
    /\ nextUpload' = now + UploadInterval
    /\ UNCHANGED <<now, waits, nextTick, inflight, started, dashboard, outcome,
                   stopRequested>>

\* Some other client of the database overwrites the record the page polls.
DatabaseWrite(payload, maxUploads) ==
    /\ uploads < maxUploads
    /\ feed' = payload
    /\ uploads' = uploads + 1
    /\ UNCHANGED <<timers, inflight, started, dashboard, outcome, stopRequested>>

-----------------------------------------------------------------------------
(* fetchData: script.js:31-58 *)

\* The interval timer calls fetchData, which runs up to its first await.
\* Nothing in the callback looks at the invocations still suspended.
Tick(maxStarted, maxInflight) ==
    /\ started < maxStarted
    /\ Len(inflight) < maxInflight
    /\ now >= nextTick
    /\ nextTick' = now + TickInterval
    /\ inflight' = Append(inflight, [pc |-> "fetch", liveData |-> NullPayload])
    /\ started' = started + 1
    /\ UNCHANGED <<now, waits, nextUpload, uploads, feed, dashboard, outcome,
                   stopRequested>>

FetchOkUnguarded(i) ==
    /\ i \in DOMAIN inflight
    /\ inflight[i].pc = "fetch"
    /\ inflight' = [inflight EXCEPT ![i] = [pc |-> "geocode", liveData |-> feed]]
    /\ UNCHANGED <<timers, uploads, feed, started, dashboard, outcome, stopRequested>>

\* The response arrives with the record the database holds.  Without a
\* truthy liveData.location the function returns; otherwise it runs up to
\* the await of getAddressFromCoords.
FetchOk(i) ==
    /\ i \in DOMAIN inflight
    /\ inflight[i].pc = "fetch"
    /\ IF feed.kind = "ok"
          THEN /\ inflight' = [inflight EXCEPT ![i] = [pc |-> "geocode", liveData |-> feed]]
               /\ outcome' = outcome
          ELSE /\ inflight' = RemoveAt(inflight, i)
               /\ outcome' = "Rejected"
    /\ UNCHANGED <<timers, uploads, feed, started, dashboard, stopRequested>>

FetchFailRetry(i) ==
    /\ i \in DOMAIN inflight
    /\ inflight[i].pc = "fetch"
    /\ inflight' = [inflight EXCEPT ![i] = [pc |-> "fetch", liveData |-> NullPayload]]
    /\ started' = started + 1
    /\ outcome' = "Failed"
    /\ UNCHANGED <<timers, uploads, feed, dashboard, stopRequested>>

FetchFailHalts(i) ==
    /\ i \in DOMAIN inflight
    /\ inflight[i].pc = "fetch"
    /\ inflight' = RemoveAt(inflight, i)
    /\ outcome' = "Failed"
    /\ nextTick' = now + 1000000000
    /\ UNCHANGED <<now, waits, nextUpload, uploads, feed, started, dashboard,
                   stopRequested>>

\* fetch rejects, or the response is not ok: the catch block logs and the
\* function returns.
FetchFail(i) ==
    /\ i \in DOMAIN inflight
    /\ inflight[i].pc = "fetch"
    /\ inflight' = RemoveAt(inflight, i)
    /\ outcome' = "Failed"
    /\ UNCHANGED <<timers, uploads, feed, started, dashboard, stopRequested>>

\* getAddressFromCoords resolves (with a name or with one of its fallback
\* strings) and the rest of fetchData runs without a further await:
\* updateDashboard, checkThresholds, the push and the shift, the chart if
\* its tab is shown, the heat layers.  updateDashboard moves the marker after
\* it has set the gauges; Leaflet's setLatLng throws on a coordinate that is
\* not a number, which takes fetchData to its catch block.
Apply(i, address) ==
    /\ i \in DOMAIN inflight
    /\ inflight[i].pc = "geocode"
    /\ LET data == formattedData(inflight[i].liveData, address)
           fires == checkThresholds(data, now, lastAlertTimes)
       IN  /\ gauge' = updateGauges(data)
           /\ IF data.latitude = NaN \/ data.longitude = NaN
                 THEN /\ outcome' = "Failed"
                      /\ UNCHANGED <<historicalData, lastAlertTimes, activeAlerts,
                                     unreadAlertCount, statusText, statusSuggestion,
                                     activityTitle, evaluations, firedAt, accepted,
                                     steps, analyticsChart, heat>>
                 ELSE /\ statusText' = StatusText(data)
                      /\ statusSuggestion' =
                             StatusSuggestion(data, HistoryAtStatusPanel(historicalData, data))
                      /\ activityTitle' = ActivityTitle(data)
                      /\ activeAlerts' = sendAlerts(activeAlerts, fires, data, now, 1)
                      /\ unreadAlertCount' = unreadAlertCount + Count(fires)
                      /\ lastAlertTimes' =
                             setLastAlertTimes(lastAlertTimes, fires, data, now)
                      /\ firedAt' =
                             [m \in Metrics |-> IF fires[m] THEN Append(firedAt[m], now)
                                                            ELSE firedAt[m]]
                      /\ evaluations' = evaluations + 1
                      /\ historicalData' = Trim(Push(historicalData, data))
                      /\ accepted' = Append(accepted, data)
                      /\ analyticsChart' =
                             IF tab = "analytics"
                                THEN renderAnalyticsChart(analyticsChart, historicalData',
                                                          timeFilter, dataFilter, now)
                                ELSE analyticsChart
                      /\ heat' = updateAllHeatmaps(heat, historicalData')
                      /\ steps' = CycleSteps(tab = "analytics")
                      /\ outcome' = "Accepted"
    /\ inflight' = RemoveAt(inflight, i)
    /\ UNCHANGED <<timers, uploads, feed, started, tab, timeFilter, dataFilter,
                   stopRequested>>

-----------------------------------------------------------------------------
(* Alert modal: script.js:226-228 *)

MarkReadClears ==
    /\ unreadAlertCount > 0
    /\ unreadAlertCount' = 0
    /\ activeAlerts' = <<>>
    /\ UNCHANGED <<timers, uploads, feed, inflight, started, historicalData,
                   lastAlertTimes, gauge, statusText, statusSuggestion,
                   activityTitle, evaluations, firedAt, accepted, steps, views,
                   outcome, stopRequested>>

\* Click on the bell.
MarkRead ==
    /\ unreadAlertCount > 0
    /\ unreadAlertCount' = 0
    /\ UNCHANGED <<timers, uploads, feed, inflight, started, historicalData,
                   lastAlertTimes, activeAlerts, gauge, statusText,
                   statusSuggestion, activityTitle, evaluations, firedAt,
                   accepted, steps, views, outcome, stopRequested>>

ClearAllKeepsUnread ==
    /\ activeAlerts # <<>>
    /\ activeAlerts' = <<>>
    /\ UNCHANGED <<timers, uploads, feed, inflight, started, historicalData,
                   lastAlertTimes, unreadAlertCount, gauge, statusText,
                   statusSuggestion, activityTitle, evaluations, firedAt,
                   accepted, steps, views, outcome, stopRequested>>

ClearAllResetsCooldown ==
    /\ activeAlerts # <<>>
    /\ activeAlerts' = <<>>
    /\ unreadAlertCount' = 0
    /\ lastAlertTimes' = [m \in Metrics |-> 0]
    /\ UNCHANGED <<timers, uploads, feed, inflight, started, historicalData,
                   gauge, statusText, statusSuggestion, activityTitle,
                   evaluations, firedAt, accepted, steps, views, outcome,
                   stopRequested>>

\* Click on "clear all".
ClearAll ==
    /\ activeAlerts # <<>>
    /\ activeAlerts' = <<>>
    /\ unreadAlertCount' = 0
    /\ UNCHANGED <<timers, uploads, feed, inflight, started, historicalData,
                   lastAlertTimes, gauge, statusText, statusSuggestion,
                   activityTitle, evaluations, firedAt, accepted, steps, views,
                   outcome, stopRequested>>

-----------------------------------------------------------------------------
(* Tabs: script.js:24-25 *)

\* Click on a tab button: the other tab is hidden, and the chart is rendered
\* when the analytics tab is the one shown.
SelectTab(key) ==
    /\ tab' = key
    /\ analyticsChart' =
           IF key = "analytics"
              THEN renderAnalyticsChart(analyticsChart, historicalData, timeFilter,
                                        dataFilter, now)
              ELSE analyticsChart
    /\ UNCHANGED <<timers, uploads, feed, inflight, started, historicalData,
                   lastAlertTimes, activeAlerts, unreadAlertCount, gauge,
                   statusText, statusSuggestion, activityTitle, evaluations,
                   firedAt, accepted, steps, timeFilter, dataFilter, heat,
                   outcome, stopRequested>>

-----------------------------------------------------------------------------
(* Chart filters: script.js:318-321 *)

ChangeTimeFilterInPlace(filter) ==
    /\ filter # timeFilter
    /\ timeFilter' = filter
    /\ historicalData' = Filtered(historicalData, filter, now)
    /\ analyticsChart' =
           renderAnalyticsChart(analyticsChart, historicalData', filter, dataFilter, now)
    /\ UNCHANGED <<timers, uploads, feed, inflight, started, lastAlertTimes,
                   activeAlerts, unreadAlertCount, gauge, statusText,
                   statusSuggestion, activityTitle, evaluations, firedAt,
                   accepted, steps, tab, dataFilter, heat, outcome, stopRequested>>

\* The user picks another time range: the change handler is
\* renderAnalyticsChart.
ChangeTimeFilter(filter) ==
    /\ filter # timeFilter
    /\ timeFilter' = filter
    /\ analyticsChart' =
           renderAnalyticsChart(analyticsChart, historicalData, filter, dataFilter, now)
    /\ UNCHANGED <<timers, uploads, feed, inflight, started, historicalData,
                   lastAlertTimes, activeAlerts, unreadAlertCount, gauge,
                   statusText, statusSuggestion, activityTitle, evaluations,
                   firedAt, accepted, steps, tab, dataFilter, heat, outcome,
                   stopRequested>>

\* The user picks another metric: the change handler is renderAnalyticsChart.
ChangeDataFilter(key) ==
    /\ key # dataFilter
    /\ dataFilter' = key
    /\ analyticsChart' =
           renderAnalyticsChart(analyticsChart, historicalData, timeFilter, key, now)
    /\ UNCHANGED <<timers, uploads, feed, inflight, started, historicalData,
                   lastAlertTimes, activeAlerts, unreadAlertCount, gauge,
                   statusText, statusSuggestion, activityTitle, evaluations,
                   firedAt, accepted, steps, tab, timeFilter, heat, outcome,
                   stopRequested>>

\* The user changes one of the two selectors of the chart.
TimeFilterChange == \E f \in TimeFilters : ChangeTimeFilter(f)

DataFilterChange == \E key \in DataFilters : ChangeDataFilter(key)

-----------------------------------------------------------------------------
(* Stopping: script.js:392-393 *)

\* The user asks for the polling to stop.  The id setInterval returns is
\* dropped and no handler calls clearInterval, so the request changes
\* nothing in the page.
RequestStop ==
    /\ ~stopRequested
    /\ stopRequested' = TRUE
    /\ UNCHANGED <<timers, uploads, feed, inflight, started, dashboard, outcome>>

-----------------------------------------------------------------------------------------------------------------------------------------------------
(* The dashboard with an arbitrary sensor, network and user *)

Wait == \E d \in Delays : Elapse(d, MaxWaits)

Sensor == \E r \in Readings : SensorUpload(r, MaxUploads)

Timer == Tick(MaxStarted, MaxInflight)

Response == \E i \in 1..MaxInflight : FetchOk(i)

Failure == \E i \in 1..MaxInflight : FetchFail(i)

Geocoded == \E i \in 1..MaxInflight, a \in Addresses : Apply(i, a)

Next ==
    \/ Wait
    \/ Sensor
    \/ Timer
    \/ Response
    \/ Failure
    \/ Geocoded
    \/ MarkRead
    \/ ClearAll
    \/ RequestStop

Spec == Init /\ [][Next]_vars

-----------------------------------------------------------------------------
(* A long session: the page is opened on a database the sensor has already  *)
(* written to and stays open for many polls; the readings stay below the    *)
(* thresholds, the interval timer is punctual and every request is answered *)
(* before the next one is made.                                             *)

LongStarted == 22

LongUploads == 1

Breezy == Reading(30, 50, 400)

InitLong == \E r \in {Calm, Breezy} : InitAfter(r)

LongWait == now < nextTick /\ Elapse(TickInterval, LongStarted)

LongSensor == \E r \in {Calm, Breezy} : SensorUpload(r, LongUploads)

LongTimer == Tick(LongStarted, 1)

LongResponse == FetchOk(1)

LongGeocoded == \E a \in Addresses : Apply(1, a)

NextLong ==
    \/ LongWait
    \/ LongSensor
    \/ LongTimer
    \/ LongResponse
    \/ LongGeocoded

SpecLong == InitLong /\ [][NextLong]_vars

-----------------------------------------------------------------------------
(* A sensor in alarm: the page is opened on a database that holds any of    *)
(* the readings, over a network that answers every request.                 *)

AlarmStarted == 3

AlarmWaits == 2

AlarmUploads == 1

InitAlarm == \E r \in Readings : InitAfter(r)

AlarmWait == \E d \in Delays : Elapse(d, AlarmWaits)

AlarmSensor == \E r \in Readings : SensorUpload(r, AlarmUploads)

AlarmTimer == Tick(AlarmStarted, 1)

AlarmResponse == FetchOk(1)

AlarmGeocoded == \E a \in Addresses : Apply(1, a)

NextAlarm ==
    \/ AlarmWait
    \/ AlarmSensor
    \/ AlarmTimer
    \/ AlarmResponse
    \/ AlarmGeocoded

SpecAlarm == InitAlarm /\ [][NextAlarm]_vars

-----------------------------------------------------------------------------
(* A punctual sensor whose carbon reading climbs by 20 ppm per upload (its  *)
(* first reading may also be a peak of 420 ppm, its first and its late      *)
(* readings a dip to 299.50 ppm), polled by a timer that may run late,      *)
(* every request being answered before the next one is made.                *)

RampStarted == 8

RampUploads == 7

Ramp(k) == [temperature |-> 30 * Scale, humidity |-> 50 * Scale,
            carbon |-> (300 + 20 * k) * Scale]

Dip == [temperature |-> 30 * Scale, humidity |-> 50 * Scale, carbon |-> 29950]

RampReadings(k) ==
    IF k = 0 THEN {Ramp(0), Dip, Ramp(6)}
    ELSE IF k >= 6 THEN {Ramp(k), Dip}
    ELSE {Ramp(k)}

RampWait == now < nextUpload /\ Elapse(UploadInterval, RampStarted)

RampSensor == \E r \in RampReadings(uploads) : SensorUpload(r, RampUploads)

RampTimer == Tick(RampStarted, 1)

RampResponse == FetchOk(1)

RampGeocoded == \E a \in Addresses : Apply(1, a)

NextRamp ==
    \/ RampWait
    \/ RampSensor
    \/ RampTimer
    \/ RampResponse
    \/ RampGeocoded

SpecRamp == Init /\ [][NextRamp]_vars

-----------------------------------------------------------------------------
(* One poll of a database that holds any record of a grid of readings       *)
(* around the thresholds.                                                   *)

GridTemperature == {3000, 4500, 4501, 5000}

GridHumidity == {5000, 8000, 8001}

GridCarbon == {30000, 50000, 50001, 60000}

GridReadings ==
    [temperature : GridTemperature, humidity : GridHumidity, carbon : GridCarbon]

InitGrid == \E r \in GridReadings : InitAfter(r)

GridResponse == FetchOk(1)

GridGeocoded == \E a \in Addresses : Apply(1, a)

NextGrid ==
    \/ GridResponse
    \/ GridGeocoded

SpecGrid == InitGrid /\ [][NextGrid]_vars

-----------------------------------------------------------------------------
(* A faulty environment: the record in the database may be missing, or be   *)
(* overwritten by one that lacks its location or holds fields that are not  *)
(* numbers; requests may fail and the geocoder may fail; the interval timer *)
(* is punctual and every request is settled before the next one is made.    *)

FaultStarted == 3

FaultUploads == 1

FaultyPayloads(t) ==
    {NullPayload, NoLocationPayload(AllHigh, t), NoTemperaturePayload(Calm, t),
     BadLocationPayload(Hot, t)}

InitFault ==
    \/ InitAfter(AllHigh)
    \/ InitOn(NullPayload, StartTime + TickInterval)

FaultWait == now < nextTick /\ Elapse(TickInterval, FaultStarted)

FaultWrite == \E p \in FaultyPayloads(now) : DatabaseWrite(p, FaultUploads)

FaultTimer == Tick(FaultStarted, 1)

FaultResponse == FetchOk(1)

FaultFailure == FetchFail(1)

FaultGeocoded == \E g \in GeocoderResults : Apply(1, getAddressFromCoords(g))

NextFault ==
    \/ FaultWait
    \/ FaultWrite
    \/ FaultTimer
    \/ FaultResponse
    \/ FaultFailure
    \/ FaultGeocoded

SpecFault == InitFault /\ [][NextFault]_vars

-----------------------------------------------------------------------------
(* An outage that ends: the page is opened while the database holds a       *)
(* faulty or a good record and requests may fail; then the sensor's upload  *)
(* gets through, and from then on requests are answered.  The interval      *)
(* timer and the sensor are punctual, and whatever is due happens: the      *)
(* timer fires, time passes, requests are settled.                          *)

RecoverStarted == 4

RecoverUploads == 1

InitRecover ==
    \/ InitAfter(AllHigh)
    \/ \E p \in FaultyPayloads(StartTime - 2 * TickInterval) :
          InitOn(p, StartTime + TickInterval)

RecoverWait ==
    /\ now < nextTick
    /\ now < nextUpload
    /\ Elapse(TickInterval, RecoverStarted)

RecoverSensor == SensorUpload(Hot, RecoverUploads)

RecoverTimer == Tick(RecoverStarted, 1)

RecoverResponse == FetchOk(1)

RecoverFailure == uploads = 0 /\ FetchFail(1)

RecoverGeocoded == \E g \in GeocoderResults : Apply(1, getAddressFromCoords(g))

NextRecover ==
    \/ RecoverWait
    \/ RecoverSensor
    \/ RecoverTimer
    \/ RecoverResponse
    \/ RecoverFailure
    \/ RecoverGeocoded

SpecRecover ==
    /\ InitRecover
    /\ [][NextRecover]_vars
    /\ WF_vars(RecoverWait)
    /\ WF_vars(RecoverSensor)
    /\ WF_vars(RecoverTimer)
    /\ WF_vars(RecoverResponse)
    /\ WF_vars(RecoverGeocoded)

-----------------------------------------------------------------------------
(* A sensor in alarm with a user at the alert modal: as the sensor in alarm *)
(* above, and the user may click the bell and the "clear all" button at any *)
(* time.                                                                    *)

ModalStarted == 3

ModalWaits == 2

ModalUploads == 1

InitModal == \E r \in {Hot, AllHigh} : InitAfter(r)

ModalWait == \E d \in Delays : Elapse(d, ModalWaits)

ModalSensor == \E r \in Readings : SensorUpload(r, ModalUploads)

ModalTimer == Tick(ModalStarted, 1)

ModalResponse == FetchOk(1)

ModalGeocoded == \E a \in Addresses : Apply(1, a)

NextModal ==
    \/ ModalWait
    \/ ModalSensor
    \/ ModalTimer
    \/ ModalResponse
    \/ ModalGeocoded
    \/ MarkRead
    \/ ClearAll

SpecModal == InitModal /\ [][NextModal]_vars

-----------------------------------------------------------------------------
(* A user at the tabs: the page is opened on a calm record, the sensor      *)
(* uploads a reading with 100 ppm more carbon, the interval timer is        *)
(* punctual, every request is answered before the next one is made, and the *)
(* user may switch between the gauge tab and the analytics tab at any time. *)

ViewStarted == 6

ViewUploads == 1

InitView == InitAfter(Calm)

ViewWait == now < nextTick /\ Elapse(TickInterval, ViewStarted)

ViewSensor == SensorUpload(Breezy, ViewUploads)

ViewTimer == Tick(ViewStarted, 1)

ViewResponse == FetchOk(1)

ViewGeocoded == \E a \in Addresses : Apply(1, a)

ViewTab == \E key \in {"gauge", "analytics"} : SelectTab(key)

NextView ==
    \/ ViewWait
    \/ ViewSensor
    \/ ViewTimer
    \/ ViewResponse
    \/ ViewGeocoded
    \/ ViewTab

SpecView == InitView /\ [][NextView]_vars

-----------------------------------------------------------------------------
(* A user at every control: the page is opened on a record in alarm that    *)
(* the sensor wrote 10 s or a little more than a day ago; the interval      *)
(* timer is punctual and every request is answered, and the user may click  *)
(* the bell, "clear all" and the tabs and change the filters of the chart   *)
(* at any time.                                                             *)

ReadersStarted == 2

InitReaders ==
    \E age \in {2 * TickInterval, DayMs + 2 * TickInterval} :
        InitOn(SensorPayload(AllHigh, StartTime - age), StartTime + TickInterval)

ReadersWait == now < nextTick /\ Elapse(TickInterval, ReadersStarted)

ReadersTimer == Tick(ReadersStarted, 1)

NextReaders ==
    \/ ReadersWait
    \/ ReadersTimer
    \/ ViewResponse
    \/ ViewGeocoded
    \/ ViewTab
    \/ TimeFilterChange
    \/ DataFilterChange
    \/ MarkRead
    \/ ClearAll

SpecReaders == InitReaders /\ [][NextReaders]_vars

-----------------------------------------------------------------------------
(* The chart over records stamped around the edges of the time ranges: the
   timestamp of a record is whatever its writer put there. *)

WindowStarted == 3

WindowUploads == 1

\* Timestamps relative to t: seven days and one day old to the millisecond,
\* recent, and a minute ahead of the page.
WindowStamps(t) == {t - 7 * DayMs, t - DayMs, t - 2 * TickInterval, t + 60000}

\* The record in the database will be one day old at the second poll.
InitWindow ==
    InitOn(SensorPayload(Calm, StartTime - DayMs + TickInterval), StartTime + TickInterval)

WindowWait == now < nextTick /\ Elapse(TickInterval, WindowStarted)

WindowWrite ==
    \E t \in WindowStamps(now) : DatabaseWrite(SensorPayload(Breezy, t), WindowUploads)

WindowTimer == Tick(WindowStarted, 1)

NextWindow ==
    \/ WindowWait
    \/ WindowWrite
    \/ WindowTimer
    \/ ViewResponse
    \/ ViewGeocoded
    \/ ViewTab
    \/ TimeFilterChange
    \/ DataFilterChange

SpecWindow == InitWindow /\ [][NextWindow]_vars

-----------------------------------------------------------------------------
(* One poll over readings below, on, inside and beyond the colour bands. *)

ColorReadings ==
    [temperature : {0 - 500, 0, 1250, 2500, 2501, 4000, 4500, 5000, 7000, 10000, 13000},
     humidity : {5000},
     carbon : {30000, 34999, 35000, 40000, 45000, 50000, 70000, 80000, 90000}]

InitColor == \E r \in ColorReadings : InitAfter(r)

NextColor ==
    \/ GridResponse
    \/ GridGeocoded

SpecColor == InitColor /\ [][NextColor]_vars

-----------------------------------------------------------------------------
(* Properties *)

Normal == "All Systems Normal."

\* The checkThresholds call of a step, if the step makes one.
Evaluated == evaluations' = evaluations + 1

\* C1: the history never holds more than 20 samples.
C1_HistoryBounded == Len(historicalData) <= 20

C1_Witness == Len(accepted) > 20 /\ Len(historicalData) = 20

\* C2: after N pushed samples the history holds the last min(N, 20) of them,
\* oldest first, in the order they were pushed.
C2_LastTwentyInOrder ==
    LET n == Len(accepted)
        k == IF n < 20 THEN n ELSE 20
    IN  /\ Len(historicalData) = k
        /\ \A i \in 1..k : historicalData[i] = accepted[n - k + i]

C2_Witness ==
    /\ Len(accepted) = 22
    /\ historicalData[1] # historicalData[20]
    /\ accepted[1] # accepted[22]

\* C3: a step that handles a sample whose timestamp is not later than that
\* of the most recently pushed sample leaves the history as it is.
C3_StaleSampleRejected ==
    [][\A i \in DOMAIN inflight, a \in Addresses :
          ( /\ Apply(i, a)
            /\ historicalData # <<>>
            /\ inflight[i].liveData.timestamp <= Last(historicalData).timestamp )
          => historicalData' = historicalData]_vars

\* C4: any two alerts of one metric fired more than 300000 ms apart.
C4_AlertsSpacedByCooldown ==
    \A m \in Metrics : \A i, j \in DOMAIN firedAt[m] :
        i < j => firedAt[m][j] - firedAt[m][i] > 300000

C4_Witness == \E m \in Metrics : Len(firedAt[m]) >= 2

\* C5: at most one fetchData invocation is in flight at any time.
C5_CyclesNeverOverlap == Len(inflight) <= 1

\* C6: the timestamps of the history are strictly increasing.
C6_TimestampsStrictlyIncreasing ==
    \A i \in 1..(Len(historicalData) - 1) :
        historicalData[i].timestamp < historicalData[i + 1].timestamp

\* C7: the status is the first match of carbon > 500, temperature > 45,
\* humidity > 80, and Normal when none matches.
C7_FirstMatchPriority ==
    evaluations > 0 =>
        /\ gauge.carbon > 50000 => statusText = "High CO2 Levels Detected!"
        /\ gauge.carbon <= 50000 /\ gauge.temperature > 4500
              => statusText = "High Temperature Alert!"
        /\ gauge.carbon <= 50000 /\ gauge.temperature <= 4500 /\ gauge.humidity > 8000
              => statusText = "High Humidity Detected."
        /\ gauge.carbon <= 50000 /\ gauge.temperature <= 4500 /\ gauge.humidity <= 8000
              => statusText = Normal

C7_Witness ==
    /\ evaluations = 1
    /\ gauge.carbon = 60000
    /\ gauge.temperature = 5000
    /\ statusText = "High CO2 Levels Detected!"

\* The suggestion the trend rule prescribes for a carbon difference given in
\* hundredths of a ppm.
C8_Prescribed(trend) ==
    IF trend > 5000 THEN [kind |-> "upwards", ppm |-> (trend + 50) \div 100]
    ELSE IF trend < 0 - 5000 THEN [kind |-> "downwards", ppm |-> 0]
    ELSE [kind |-> "stable", ppm |-> 0]

C9_OneAlertPerCooldownWindow ==
    [][\A m \in Metrics :
          (Evaluated /\ Value(m, gauge') > THRESHOLDS[m])
          => IF firedAt[m] = <<>> \/ now - Last(firedAt[m]) > 300000
                THEN firedAt'[m] = Append(firedAt[m], now)
                ELSE firedAt'[m] = firedAt[m]]_vars

C9_Witness ==
    /\ Len(accepted) = 3
    /\ \A k \in 1..3 : accepted[k].temperature > THRESHOLDS.temp
    /\ Len(firedAt["temp"]) = 2
    /\ firedAt["temp"][2] = firedAt["temp"][1] + 301000

\* C10: one evaluation adds one alert for every metric that is breached and
\* not in cooldown, whatever the state of the other metrics: three when all
\* three are.
C10_IndependentPerMetric ==
    [][Evaluated =>
          LET due == {m \in Metrics : /\ Value(m, gauge') > THRESHOLDS[m]
                                      /\ now - lastAlertTimes[m] > 300000}
          IN  /\ Len(activeAlerts') = Len(activeAlerts) + Cardinality(due)
              /\ \A m \in due :
                    \E k \in 1..Cardinality(due) : activeAlerts'[k].metric = Label(m)
              /\ \A m \in Metrics : firedAt'[m] # firedAt[m] <=> m \in due]_vars

C10_Witness ==
    /\ Len(activeAlerts) = 3
    /\ {activeAlerts[k].metric : k \in 1..3} = {"Temperature", "CO2 Level", "Humidity"}
    /\ \E t \in {firedAt["temp"][k] : k \in DOMAIN firedAt["temp"]} :
          \A m \in Metrics : firedAt[m] = <<t>>

\* C11: a cycle that fetches no record, or a record without a location,
\* ends as rejected and leaves the history, the cooldown state, the alert log
\* and the unread counter as they are; no alert fires.
C11_NoLocationRejected ==
    [][\A i \in DOMAIN inflight :
          (FetchOk(i) /\ feed.kind \in {"null", "nolocation"})
          => /\ outcome' = "Rejected"
             /\ inflight' = RemoveAt(inflight, i)
             /\ historicalData' = historicalData
             /\ lastAlertTimes' = lastAlertTimes
             /\ activeAlerts' = activeAlerts
             /\ unreadAlertCount' = unreadAlertCount
             /\ firedAt' = firedAt]_vars

C11_Witness ==
    /\ outcome = "Rejected"
    /\ feed.kind = "nolocation"
    /\ inflight = <<>>
    /\ Len(historicalData) = 1
    /\ Len(activeAlerts) = 3
    /\ unreadAlertCount = 3

\* C12: every sample of the history has numbers for its temperature,
\* humidity, carbon, latitude and longitude.
C12_OnlyFiniteSamples ==
    \A k \in DOMAIN historicalData :
        /\ historicalData[k].temperature # NaN
        /\ historicalData[k].humidity # NaN
        /\ historicalData[k].carbon # NaN
        /\ historicalData[k].latitude # NaN
        /\ historicalData[k].longitude # NaN

\* C13: a cycle whose request fails ends as failed and leaves the history,
\* the cooldown state and the alert log as they are, and a request is only
\* ever made by the interval timer when its period has run out.
C13_FailureWaitsForNextTick ==
    [][/\ \A i \in DOMAIN inflight :
             FetchFail(i)
             => /\ outcome' = "Failed"
                /\ inflight' = RemoveAt(inflight, i)
                /\ started' = started
                /\ historicalData' = historicalData
                /\ lastAlertTimes' = lastAlertTimes
                /\ activeAlerts' = activeAlerts
       /\ started' # started
             => /\ started' = started + 1
                /\ now >= nextTick
                /\ nextTick' = now + 5000]_vars

C13_Witness ==
    /\ outcome = "Failed"
    /\ uploads = 0
    /\ feed.kind = "ok"
    /\ feed.location = SensorLocation
    /\ started = 2
    /\ inflight = <<>>
    /\ Len(accepted) = 1
    /\ Len(activeAlerts) = 3
    /\ now < nextTick

\* C14: whenever a cycle has ended as rejected or failed, a later cycle ends
\* as accepted once the database holds a good record and requests are
\* answered again.
C14_LoopSurvivesFailure ==
    (outcome \in {"Rejected", "Failed"}) ~> (outcome = "Accepted")

C14_Witness ==
    /\ outcome = "Accepted"
    /\ started = 3
    /\ inflight = <<>>
    /\ Len(accepted) = 1
    /\ evaluations = 1

\* The number of alerts fired so far.
Fired == Len(firedAt["temp"]) + Len(firedAt["co2"]) + Len(firedAt["humidity"])

\* C15: "clear all" empties the alert log and sets the unread counter to 0;
\* opening the alert modal sets the unread counter to 0 and leaves the log
\* as it is.
C15_ClearAndMarkRead ==
    [][/\ ClearAll => (activeAlerts' = <<>> /\ unreadAlertCount' = 0)
       /\ MarkRead => (unreadAlertCount' = 0 /\ activeAlerts' = activeAlerts)]_vars

C15_Witness ==
    /\ unreadAlertCount = 0
    /\ activeAlerts # <<>>
    /\ Len(activeAlerts) < Fired

\* C16: one evaluation fires at most one alert per metric, of type error for
\* temperature and co2 and warning for humidity; every alert fired puts one
\* record in front of the log and adds one to the unread counter.
C16_OneRecordPerAlert ==
    [][Evaluated =>
          LET n == Len(activeAlerts') - Len(activeAlerts)
          IN  /\ n \in 0..3
              /\ unreadAlertCount' = unreadAlertCount + n
              /\ \A k \in 1..Len(activeAlerts) : activeAlerts'[n + k] = activeAlerts[k]
              /\ \A j, k \in 1..n :
                    j # k => activeAlerts'[j].metric # activeAlerts'[k].metric
              /\ \A k \in 1..n :
                    \/ /\ activeAlerts'[k].metric \in {"Temperature", "CO2 Level"}
                       /\ activeAlerts'[k].type = "error"
                    \/ /\ activeAlerts'[k].metric = "Humidity"
                       /\ activeAlerts'[k].type = "warning"
              /\ \A m \in Metrics :
                    Len(firedAt'[m]) - Len(firedAt[m]) =
                        Cardinality({k \in 1..n : activeAlerts'[k].metric = Label(m)})]_vars

C16_Witness ==
    /\ Len(activeAlerts) = 6
    /\ unreadAlertCount = 3
    /\ activeAlerts[1].type = "warning"
    /\ activeAlerts[2].type = "error"
    /\ activeAlerts[3].type = "error"
    /\ activeAlerts[4].type = "warning"

\* C17: when the geocoder fails (its response is not ok, or its request is
\* rejected) for a record with a location that parses, the cycle goes on: the
\* sample carries a fallback location name and is classified, evaluated for
\* alerts and pushed in that same step.
C17_GeocoderFailureProceeds ==
    [][\A i \in DOMAIN inflight, g \in {"notok", "throw"} :
          ( /\ Apply(i, getAddressFromCoords(g))
            /\ inflight[i].liveData.location.lat # NaN
            /\ inflight[i].liveData.location.lng # NaN )
          => /\ outcome' = "Accepted"
             /\ inflight' = RemoveAt(inflight, i)
             /\ Len(accepted') = Len(accepted) + 1
             /\ Last(historicalData') = Last(accepted')
             /\ Last(historicalData').locationName
                    \in {"Address lookup failed.", "Address not found."}
             /\ Last(historicalData').timestamp = inflight[i].liveData.timestamp
             /\ evaluations' = evaluations + 1
             /\ gauge'.carbon = Last(historicalData').carbon
             /\ statusText' \in {"High CO2 Levels Detected!", "High Temperature Alert!",
                                 "High Humidity Detected.", "All Systems Normal."}
             /\ (gauge'.carbon > 50000) <=> (statusText' = "High CO2 Levels Detected!")
             /\ (gauge'.carbon > 50000 /\ now - lastAlertTimes["co2"] > 300000)
                    => Len(firedAt'["co2"]) = Len(firedAt["co2"]) + 1]_vars

C17_Witness ==
    /\ outcome = "Accepted"
    /\ Len(historicalData) = 2
    /\ historicalData[1].locationName = "Coimbatore"
    /\ historicalData[2].locationName = "Address not found."
    /\ statusText = "High CO2 Levels Detected!"
    /\ Len(activeAlerts) = 3

\* C18: the request of a cycle is over, answered or timed out, before the
\* 5000 ms of the tick that started it have run out.  The invocation started
\* last began at nextTick - 5000.
C18_FetchBoundedByTimeout ==
    (inflight # <<>> /\ Last(inflight).pc = "fetch") => now - (nextTick - 5000) < 5000

\* C19: once the user has asked for the polling to stop, no fetchData
\* invocation is started any more.
C19_NoCycleAfterStop == [][stopRequested => started' = started]_vars

C21_StaleSampleHasNoEffect ==
    [][\A i \in DOMAIN inflight, a \in Addresses :
          ( /\ Apply(i, a)
            /\ historicalData # <<>>
            /\ inflight[i].liveData.timestamp <= Last(historicalData).timestamp )
          => /\ evaluations' = evaluations
             /\ statusText' = statusText
             /\ statusSuggestion' = statusSuggestion
             /\ lastAlertTimes' = lastAlertTimes
             /\ activeAlerts' = activeAlerts
             /\ heat' = heat
             /\ analyticsChart' = analyticsChart]_vars

\* C22: the cooldown time of a metric changes only in a step that fires an
\* alert for that metric, and then to the time of the firing; an evaluation
\* in which the metric does not breach, or breaches within 300000 ms of its
\* last firing, leaves it as it is.
C22_CooldownSetOnlyOnFiring ==
    [][\A m \in Metrics :
          /\ lastAlertTimes'[m] # lastAlertTimes[m]
                => /\ Evaluated
                   /\ Value(m, gauge') > THRESHOLDS[m]
                   /\ now - lastAlertTimes[m] > 300000
                   /\ lastAlertTimes'[m] = now
                   /\ firedAt'[m] = Append(firedAt[m], now)
          /\ (Evaluated /\ ~(/\ Value(m, gauge') > THRESHOLDS[m]
                              /\ now - lastAlertTimes[m] > 300000))
                => lastAlertTimes'[m] = lastAlertTimes[m]]_vars

C22_Witness ==
    /\ Len(accepted) = 2
    /\ accepted[2].temperature > THRESHOLDS.temp
    /\ Len(firedAt["temp"]) = 1
    /\ Len(firedAt["co2"]) = 1
    /\ lastAlertTimes["temp"] = firedAt["temp"][1]
    /\ lastAlertTimes["co2"] = firedAt["co2"][1]
    /\ lastAlertTimes["co2"] = lastAlertTimes["temp"] + 10000
    /\ lastAlertTimes["humidity"] = lastAlertTimes["co2"]

\* C23: the history changes only in the step of a cycle that pushes a
\* sample, by the push and the shift; the clicks on the bell, on "clear all"
\* and on the tabs and the changes of the chart filters leave it as it is.
C23_HistoryChangedOnlyByPush ==
    [][/\ historicalData' # historicalData
             => /\ Evaluated
                /\ Len(accepted') = Len(accepted) + 1
                /\ \/ historicalData' = Append(historicalData, Last(accepted'))
                   \/ /\ Len(historicalData) = 20
                      /\ historicalData' = Tail(Append(historicalData, Last(accepted')))
       /\ ( \/ tab' # tab
            \/ timeFilter' # timeFilter
            \/ dataFilter' # dataFilter
            \/ unreadAlertCount' < unreadAlertCount
            \/ Len(activeAlerts') < Len(activeAlerts) )
             => historicalData' = historicalData]_vars

C23_Witness ==
    /\ tab = "analytics"
    /\ timeFilter = "24h"
    /\ dataFilter = "carbon"
    /\ analyticsChart = [key |-> "carbon", points |-> <<>>]
    /\ activeAlerts = <<>>
    /\ Fired = 3
    /\ Len(historicalData) = 2
    /\ historicalData = accepted
    /\ Len(heat.co2) = 2

\* C24: once a sample has been pushed, each of the three heat layers holds
\* one point per sample of the history, in the order of the history: the
\* latitude and longitude of the sample and its temperature, humidity or
\* carbon.
C24_HeatPointPerSample ==
    evaluations > 0 =>
        /\ Len(heat.temperature) = Len(historicalData)
        /\ Len(heat.humidity) = Len(historicalData)
        /\ Len(heat.co2) = Len(historicalData)
        /\ \A k \in 1..Len(historicalData) :
              LET d == historicalData[k]
              IN  /\ heat.temperature[k] = <<d.latitude, d.longitude, d.temperature>>
                  /\ heat.humidity[k] = <<d.latitude, d.longitude, d.humidity>>
                  /\ heat.co2[k] = <<d.latitude, d.longitude, d.carbon>>

C24_Witness ==
    /\ Len(accepted) = 21
    /\ Len(heat.co2) = 20
    /\ heat.co2[20] = <<10908500, 76909800, 40000>>
    /\ heat.co2[1] = <<10908500, 76909800, 30000>>
    /\ heat.temperature[20] = <<10908500, 76909800, 3000>>
    /\ heat.humidity[20] = <<10908500, 76909800, 5000>>

\* A step in which renderAnalyticsChart runs on a history that is not empty.
Rendered ==
    /\ historicalData' # <<>>
    /\ \/ analyticsChart' # analyticsChart
       \/ timeFilter' # timeFilter
       \/ dataFilter' # dataFilter
       \/ tab # "analytics" /\ tab' = "analytics"
       \/ Evaluated /\ tab = "analytics"

\* The series of the samples of `history` that satisfy Keep, in the order of
\* the history, each as <<timestamp, value of the metric>>.
Series(history, key, Keep(_)) ==
    LET f == SelectSeq(history, Keep)
    IN  [k \in 1..Len(f) |-> <<f[k].timestamp, f[k][key]>>]

RangeMs(filter) == IF filter = "24h" THEN DayMs ELSE 7 * DayMs

\* C25 as stated: the chart shows, in buffer order, the samples stamped in
\* the closed interval [now - range, now] when the range is 24h or 7d, and
\* all samples otherwise, each as (timestamp, value of the chosen metric).
C25_ClosedWindow ==
    [][Rendered =>
          analyticsChart' =
              [key |-> dataFilter',
               points |->
                   Series(historicalData', dataFilter',
                          LAMBDA d : \/ timeFilter' = "all"
                                     \/ /\ d.timestamp >= now' - RangeMs(timeFilter')
                                        /\ d.timestamp <= now')]]_vars

\* C25, amended: the chart shows, in buffer order, the samples stamped later
\* than now - range when the range is 24h or 7d (a sample stamped exactly
\* now - range is left out, a sample stamped after now is kept), and all
\* samples otherwise, each as (timestamp, value of the chosen metric).
C25_WindowAfterLowerBound ==
    [][Rendered =>
          analyticsChart' =
              [key |-> dataFilter',
               points |->
                   Series(historicalData', dataFilter',
                          LAMBDA d : \/ timeFilter' = "all"
                                     \/ d.timestamp > now' - RangeMs(timeFilter'))]]_vars

C25_Witness ==
    /\ timeFilter = "24h"
    /\ tab = "analytics"
    /\ Len(historicalData) = 2
    /\ historicalData[1].timestamp = now - DayMs
    /\ historicalData[2].timestamp > now
    /\ analyticsChart =
           [key |-> "carbon",
            points |-> <<<<historicalData[2].timestamp, historicalData[2].carbon>>>>]

\* Each channel is an integer of 0..255 that lies between the channels of
\* the two colours, and the string of the colour is "#" and six digits.
BetweenEndpoints(color, from, to) ==
    /\ \A k \in 1..3 :
          /\ color[k] \in 0..255
          /\ color[k] >= IF from[k] < to[k] THEN from[k] ELSE to[k]
          /\ color[k] <= IF from[k] < to[k] THEN to[k] ELSE from[k]
    /\ Len(ColorText(color)) = 7
    /\ \A k \in 2..7 : ColorText(color)[k] # "-"

\* C26: whatever the temperature and the carbon value shown, the factor of
\* the interpolation is in [0, 1] and every channel of the colour of the
\* gauge lies between the channels of the two colours of the band and
\* within 0..255.
C26_ChannelsInRange ==
    evaluations > 0 =>
        /\ LET band == TemperatureBand(gauge.temperature)
           IN  /\ band.factor.num >= 0
               /\ band.factor.num <= band.factor.den
               /\ BetweenEndpoints(gauge.temperatureColor, band.from, band.to)
        /\ IF gauge.carbon < 350 * Scale
              THEN gauge.carbonColor = green
              ELSE LET band == CO2Band(gauge.carbon)
                   IN  /\ band.factor.num >= 0
                       /\ band.factor.num <= band.factor.den
                       /\ BetweenEndpoints(gauge.carbonColor, band.from, band.to)

\* C27: whatever the order of alerts, clicks on the bell and clicks on
\* "clear all", the unread counter is at least 0 and at most the number of
\* records in the alert log.
C27_UnreadWithinLog ==
    /\ unreadAlertCount >= 0
    /\ unreadAlertCount <= Len(activeAlerts)

C27_Witness ==
    /\ Len(activeAlerts) = 3
    /\ unreadAlertCount = 2
    /\ Fired = 3

\* C28: "clear all" and the click on the bell leave the cooldown times as
\* they are, and with or without them an alert of a metric is sent only if
\* the metric has sent none yet or more than 300000 ms have passed since its
\* last alert.
C28_ClearKeepsCooldown ==
    [][/\ (ClearAll \/ MarkRead) => lastAlertTimes' = lastAlertTimes
       /\ \A m \in Metrics :
             firedAt'[m] # firedAt[m]
             => firedAt[m] = <<>> \/ now - Last(firedAt[m]) > 300000]_vars

C28_Witness ==
    /\ Len(accepted) = 2
    /\ accepted[2].temperature > THRESHOLDS["temp"]
    /\ accepted[2].carbon > THRESHOLDS["co2"]
    /\ activeAlerts = <<>>
    /\ Fired = 3
    /\ \A m \in Metrics : lastAlertTimes[m] = StartTime

====
